---- MODULE Spec2Model ----
(***************************************************************************)
(* A model of btclab/buydips.py: the dip-buying loop `main`, the freshness *)
(* check `bought_less_than_24h_ago`, the `@retry` wrapper around `main`    *)
(* and the notifier `send_msg`.                                            *)
(*                                                                         *)
(* Time is counted in whole seconds since an arbitrary epoch.  Prices and  *)
(* percentages are integers; the comparison of `discount_pct` is done in   *)
(* exact arithmetic (cross-multiplied by the positive buy price), so the   *)
(* rounding of Python floats is not modelled.                              *)
(***************************************************************************)
EXTENDS Integers, Sequences, FiniteSets, TLC

VARIABLES
    run,          \* number of the operating-system process (1 = first launch)
    reset_cache,  \* the --reset-cache flag of this process
    dry_run,      \* the --dry-run flag of this process
    unsupported,  \* what crypto.get_unsupported_symbols answers in this process
    pc,           \* where `main` stands
    tries,        \* _tries of the retry wrapper
    delay,        \* _delay of the retry wrapper, seconds
    now,          \* the wall clock, seconds
    orders,       \* the local `orders` of main: symbol -> order
    persisted,    \* what db holds on disk: symbol -> order
    tickers,      \* the local `tickers` of main: symbol -> ticker
    todo,         \* the symbols of `tickers.items()` not yet iterated
    ev,           \* the last iteration of the for loop (history)
    msg,          \* the last call of send_msg (history)
    did,          \* what this process has done so far (history)
    netErrors,    \* network errors raised inside main in this process (history)
    lastBackoff,  \* duration of the last sleep of the retry wrapper (history)
    exit_code,    \* exit code of the process, 0 while it runs
    cleared,      \* the orders db held when a process started its loop with
                  \* --reset-cache (history)
    seen,         \* the symbols iterated so far in this cycle (history)
    placed,       \* the symbols place_order was called for in this cycle
                  \* (history)
    bought        \* the last order this process bought of each symbol
                  \* (history)

\* What is fixed when a process is launched.
launch == <<run, reset_cache, dry_run, unsupported>>

\* The history of the current cycle.
cycle == <<seen, placed>>

vars == <<launch, cleared, pc, tries, delay, now, orders, persisted, tickers,
          todo, ev, msg, did, netErrors, lastBackoff, exit_code, cycle,
          bought>>

----------------------------------------------------------------------------
(* Bounds of the model *)

MaxRuns == 2        \* processes launched one after the other
MaxSleeps == 2      \* cycle sleeps the clock has room for
StartDays == 3      \* the clock starts this many days after the epoch
RestartGap == 1     \* seconds between the end of a process and the next launch

(* Program constants *)

RETRY_TRIES == 8            \* @retry(..., tries=8
RETRY_DELAY == 15           \*            delay=15
RETRY_BACKOFF == 2          \*            backoff=2)
MS_PER_SECOND == 1000       \* timestamp /= 1000
SECONDS_PER_DAY == 86400    \* timedelta.days
SECONDS_PER_MINUTE == 60    \* time.sleep(freq * 60)
UNSUPPORTED_EXIT == -1      \* typer.Exit(code=-1)
CRASH_EXIT == 1             \* an exception nobody catches

(* Configuration of the run: command line options and config values *)

amount_usd == 1000
freq == 1440                \* minutes
retry_after == 720          \* minutes
min_drop == 7
min_additional_drop == 2

symbols == <<"BTC/USDT", "ETH/USDT">>
SymbolSet == {symbols[i] : i \in DOMAIN symbols}

StartTime == StartDays * SECONDS_PER_DAY
Horizon == StartTime + MaxSleeps * freq * SECONDS_PER_MINUTE

----------------------------------------------------------------------------
(* Values *)

\* A Python number used as a timestamp: an int n is [kind "int", whole n,
\* frac 0]; a float is [kind "float"] with its value whole + frac/1000.
IntTs(n) == [kind |-> "int", whole |-> n, frac |-> 0]
FloatTs(s, f) == [kind |-> "float", whole |-> s, frac |-> f]

Order(symbol, price, ts) ==
    [symbol |-> symbol, price |-> price, amount |-> amount_usd \div price,
     timestamp |-> ts]

NoOrder == Order("", 1, IntTs(0))
NoTicker == [last |-> 0, percentage |-> 0]
Empty == [s \in {} |-> NoOrder]

\* What the exchange may report for a symbol: a price of 98 after a 24h
\* change just below -min_drop, or a price of 97 after a change of exactly
\* -min_drop.
Tickers ==
    {[last |-> 98, percentage |-> 0 - min_drop - 1],
     [last |-> 97, percentage |-> 0 - min_drop]}


\* What the Order Store may hold when the first process starts: nothing, or
\* one BTC/USDT buy at 100 made an hour before, its timestamp written as
\* float seconds, as integer milliseconds, as integer seconds, or as a float
\* without a fractional part; or such a buy at 101.
BoughtAt == StartTime - 3600
InitialStores ==
    {Empty} \cup
    {("BTC/USDT" :> Order("BTC/USDT", 100, ts)) :
        ts \in {FloatTs(BoughtAt, 500), IntTs(BoughtAt * MS_PER_SECOND),
                IntTs(BoughtAt), FloatTs(BoughtAt, 0)}} \cup
    {"BTC/USDT" :> Order("BTC/USDT", 101, FloatTs(BoughtAt, 500))}

NoEv == [symbol |-> "", ticker |-> NoTicker, had |-> FALSE, prev |-> NoOrder,
         at |-> 0, fresh |-> FALSE, buy_first_time |-> FALSE,
         buy_again |-> FALSE, result |-> "none"]
NoMsg == [kind |-> "none", basis |-> "", pct |-> 0, outcome |-> "none"]

----------------------------------------------------------------------------
(* bought_less_than_24h_ago *)

\* '.' in str(timestamp): the text of an int has no point, the text of a
\* float in the range of the model always has one.
HasDot(timestamp) == timestamp.kind = "float"

\* timestamp /= 1000 on an int: true division, the result is a float.
DividedBy1000(timestamp) ==
    FloatTs(timestamp.whole \div MS_PER_SECOND, timestamp.whole % MS_PER_SECOND)

NotNormalized(timestamp) == timestamp

\* The value handed to datetime.fromtimestamp.
Normalized(timestamp) ==
    IF ~HasDot(timestamp) THEN DividedBy1000(timestamp) ELSE timestamp

\* (now - bought_on).days: whole days, rounded towards minus infinity.
DiffDays(now_, bought_on) ==
    ((now_ - bought_on.whole) * 1000 - bought_on.frac)
        \div (SECONDS_PER_DAY * 1000)

bought_less_than_48h_ago(symbol, orders_, now_) ==
    IF symbol \in DOMAIN orders_
    THEN DiffDays(now_, Normalized(orders_[symbol].timestamp)) <= 2
    ELSE FALSE

bought_less_than_24h_ago(symbol, orders_, now_) ==
    IF symbol \in DOMAIN orders_
    THEN DiffDays(now_, Normalized(orders_[symbol].timestamp)) <= 1
    ELSE FALSE

----------------------------------------------------------------------------
(* The decision of one iteration of the for loop *)

\* line 135: which branch of the if is taken
again_branch(symbol, orders_, now_) ==
    symbol \in DOMAIN orders_ /\ bought_less_than_24h_ago(symbol, orders_, now_)

discount_below_or_equal(last, price) ==
    (last - price) * 100 <= (0 - min_additional_drop) * price

\* discount_pct < -min_additional_drop, with
\* discount_pct = (last / price - 1) * 100 and price > 0
discount_below(last, price) ==
    (last - price) * 100 < (0 - min_additional_drop) * price

percentage_below_or_equal(percentage) == percentage <= 0 - min_drop

\* ticker['percentage'] < -min_drop
percentage_below(percentage) == percentage < 0 - min_drop

buy_again(symbol, ticker, orders_, now_) ==
    /\ again_branch(symbol, orders_, now_)
    /\ discount_below(ticker.last, orders_[symbol].price)

buy_first_time_any_branch(symbol, ticker, orders_, now_) ==
    percentage_below(ticker.percentage)

\* the else of line 135: buy_first_time is assigned only when the branch of
\* buy_again is not taken
buy_first_time(symbol, ticker, orders_, now_) ==
    /\ ~again_branch(symbol, orders_, now_)
    /\ percentage_below(ticker.percentage)

\* crypto.place_order, when it returns: the order bought at `price` now, its
\* timestamp in integer milliseconds or in float seconds.
place_order(symbol, price, now_) ==
    {Order(symbol, price, ts) :
        ts \in {IntTs(now_ * MS_PER_SECOND), FloatTs(now_, 500)}}

\* db.get_orders and db.save: the whole mapping is read and overwritten.
get_orders(disk) == disk
save(orders_) == orders_

----------------------------------------------------------------------------
(* The retry wrapper: @retry((RequestTimeout, NetworkError), tries=8,      *)
(* delay=15, backoff=2) around main                                         *)

TriesLeftOfNewBudget(tries_) == RETRY_TRIES - 1

\* _tries -= 1: the counter is a local of the wrapper, which main never
\* returns to.
TriesLeft(tries_) == tries_ - 1
NextDelayLinear(delay_) == delay_ + RETRY_DELAY
NextDelay(delay_) == delay_ * RETRY_BACKOFF

\* A RequestTimeout or NetworkError leaves main: the wrapper counts it and
\* either re-raises (the process ends) or sleeps and calls main again.
RetryOnError ==
    /\ netErrors' = netErrors + 1
    /\ tries' = TriesLeft(tries)
    /\ IF TriesLeft(tries) = 0
       THEN /\ pc' = "exited"
            /\ exit_code' = CRASH_EXIT
            /\ UNCHANGED <<delay, now, lastBackoff>>
       ELSE /\ pc' = "startup"
            /\ now' = now + delay
            /\ lastBackoff' = delay
            /\ delay' = NextDelay(delay)
            /\ UNCHANGED exit_code

----------------------------------------------------------------------------
(* Initial state: the first process is launched *)

\* The orders of a mapping.
Held(orders_) == {orders_[s] : s \in DOMAIN orders_}

Init ==
    /\ run = 1
    /\ reset_cache \in BOOLEAN
    /\ dry_run \in BOOLEAN
    /\ unsupported \in {{}, {"ETH/USDT"}}
    /\ pc = "startup"
    /\ tries = RETRY_TRIES
    /\ delay = RETRY_DELAY
    /\ now = StartTime
    /\ orders = Empty
    /\ persisted \in InitialStores
    /\ tickers = [s \in SymbolSet |-> NoTicker]
    /\ todo = <<>>
    /\ ev = NoEv
    /\ msg = NoMsg
    /\ did = {}
    /\ netErrors = 0
    /\ lastBackoff = 0
    /\ exit_code = 0
    /\ cleared = {}
    /\ seen = <<>>
    /\ placed = <<>>
    /\ bought = Empty

has_many_unsupported(non_supported_symbols) ==
    Cardinality(non_supported_symbols) > 1

\* len(non_supported_symbols) > 0
has_unsupported(non_supported_symbols) == Cardinality(non_supported_symbols) > 0

\* orders = db.get_orders() if not reset_cache else {}
load_orders(reset_cache_, disk) ==
    IF ~reset_cache_ THEN get_orders(disk) ELSE Empty

\* main, lines 70-127: from the call of main to the head of the while loop,
\* when the exchange answers the symbol check.
Startup ==
    /\ pc = "startup"
    /\ IF has_unsupported(unsupported)
       THEN /\ pc' = "exited"
            /\ exit_code' = UNSUPPORTED_EXIT
            /\ did' = did \cup {"check"}
            /\ UNCHANGED <<orders, cleared>>
       ELSE /\ orders' = load_orders(reset_cache, persisted)
            /\ did' = did \cup {"check"}
                           \cup (IF reset_cache THEN {} ELSE {"load"})
            /\ cleared' = IF reset_cache /\ "check" \notin did
                           THEN cleared \cup Held(persisted)
                           ELSE cleared
            /\ pc' = "fetch"
            /\ UNCHANGED exit_code
    /\ tickers' = [s \in SymbolSet |-> NoTicker]
    /\ todo' = <<>>
    /\ ev' = NoEv
    /\ msg' = NoMsg
    /\ seen' = <<>>
    /\ placed' = <<>>
    /\ UNCHANGED <<launch, persisted, tries, delay, now, netErrors,
                   lastBackoff, bought>>

\* line 108, when the symbol check cannot reach the exchange: this call of
\* main ends before it has assigned any of its loop variables.
StartupNetworkError ==
    /\ pc = "startup"
    /\ RetryOnError
    /\ tickers' = [s \in SymbolSet |-> NoTicker]
    /\ todo' = <<>>
    /\ ev' = NoEv
    /\ msg' = NoMsg
    /\ seen' = <<>>
    /\ placed' = <<>>
    /\ UNCHANGED <<launch, cleared, orders, persisted, did, bought>>

\* line 130: tickers = binance.fetch_tickers(symbols)
FetchTickers ==
    /\ pc = "fetch"
    /\ tickers' \in [SymbolSet -> Tickers]
    /\ todo' = symbols
    /\ did' = did \cup {"fetch"}
    /\ seen' = <<>>
    /\ placed' = <<>>
    /\ pc' = "eval"
    /\ UNCHANGED <<launch, cleared, orders, persisted, ev, msg, bought,
                   tries, delay, now, netErrors, lastBackoff, exit_code>>

\* line 130, when the fetch raises RequestTimeout or NetworkError.
FetchNetworkError ==
    /\ pc = "fetch"
    /\ RetryOnError
    /\ UNCHANGED <<launch, cleared, orders, persisted, tickers,
                   todo, ev, msg, did, cycle, bought>>

\* What one iteration saw and decided.
Evaluation(symbol, result) ==
    [symbol |-> symbol,
     ticker |-> tickers[symbol],
     had |-> symbol \in DOMAIN orders,
     prev |-> IF symbol \in DOMAIN orders THEN orders[symbol] ELSE NoOrder,
     at |-> now,
     fresh |-> bought_less_than_24h_ago(symbol, orders, now),
     buy_first_time |-> buy_first_time(symbol, tickers[symbol], orders, now),
     buy_again |-> buy_again(symbol, tickers[symbol], orders, now),
     result |-> result]

recorded_unless_dry_run(orders_, symbol, order, dry_run_) ==
    IF dry_run_ THEN orders_ ELSE (symbol :> order) @@ orders_

\* line 157: orders[symbol] = order.  The dry_run flag is not consulted:
\* what place_order returned is recorded, simulated or not.
recorded(orders_, symbol, order, dry_run_) == (symbol :> order) @@ orders_

\* f'{x:.1f}' of the quotient num / den times 100: tenths of a percent,
\* rounded to the nearest.
Tenths(num, den) == (2000 * num + den) \div (2 * den)

buy_message_24h(again, ticker, price) ==
    [kind |-> IF again THEN "again" ELSE "first", basis |-> "24h ago",
     pct |-> 10 * ticker.percentage, outcome |-> "calling"]

\* lines 159-162: the message of a buy, the percentage it quotes and what
\* that percentage is relative to.
buy_message(again, ticker, price) ==
    IF again
    THEN [kind |-> "again", basis |-> "previous buy",
          pct |-> Tenths(ticker.last - price, price), outcome |-> "calling"]
    ELSE [kind |-> "first", basis |-> "24h ago",
          pct |-> 10 * ticker.percentage, outcome |-> "calling"]

\* lines 150-151: the message of insufficient funds.
funds_message ==
    [kind |-> "funds", basis |-> "", pct |-> 0, outcome |-> "calling"]

\* What place_order does with the exchange: a live process submits the
\* order, a dry-run process only computes it.
exchange_calls(dry_run_) == IF dry_run_ THEN {"order"} ELSE {"order", "submit"}

\* lines 132-166: one iteration of the for loop, up to the call of send_msg
\* (or to the end of the iteration when nothing is bought).
Evaluate ==
    /\ pc = "eval"
    /\ todo # <<>>
    /\ LET symbol == Head(todo)
           ticker == tickers[symbol]
           first == buy_first_time(symbol, ticker, orders, now)
           again == buy_again(symbol, ticker, orders, now)
       IN  /\ seen' = Append(seen, symbol)
           /\ IF first \/ again
              THEN /\ placed' = Append(placed, symbol)
                   /\ \/ \E order \in place_order(symbol, ticker.last, now) :
                            /\ orders' = recorded(orders, symbol, order, dry_run)
                            /\ persisted' = save(orders')
                            /\ bought' = (symbol :> order) @@ bought
                            /\ msg' = buy_message(again, ticker,
                                                  Evaluation(symbol, "ok").prev.price)
                            /\ ev' = Evaluation(symbol, "ok")
                            /\ did' = did \cup exchange_calls(dry_run)
                                          \cup {"save"}
                            /\ pc' = "notify"
                            /\ UNCHANGED todo
                      \/ /\ msg' = funds_message
                         /\ ev' = Evaluation(symbol, "funds")
                         /\ did' = did \cup exchange_calls(dry_run)
                         /\ pc' = "notify"
                         /\ UNCHANGED <<orders, persisted, todo, bought>>
              ELSE /\ ev' = Evaluation(symbol, "none")
                   /\ todo' = Tail(todo)
                   /\ UNCHANGED <<orders, persisted, msg, did, pc, placed,
                                  bought>>
    /\ UNCHANGED <<launch, cleared, tickers, tries, delay, now,
                   netErrors, lastBackoff, exit_code>>

\* lines 132-148, when place_order raises RequestTimeout or NetworkError.
EvaluateNetworkError ==
    /\ pc = "eval"
    /\ todo # <<>>
    /\ LET symbol == Head(todo)
       IN  /\ \/ buy_first_time(symbol, tickers[symbol], orders, now)
              \/ buy_again(symbol, tickers[symbol], orders, now)
           /\ ev' = Evaluation(symbol, "neterr")
           /\ seen' = Append(seen, symbol)
           /\ placed' = Append(placed, symbol)
    /\ RetryOnError
    /\ did' = did \cup exchange_calls(dry_run)
    /\ UNCHANGED <<launch, cleared, orders, persisted, tickers,
                   todo, msg, bought>>

\* send_msg: requests.get(url).  The answer of the server is not looked at,
\* so a refused message passes unnoticed; an exception of requests (no
\* connection, no name resolution) is caught by nobody and ends the process.
send_msg_outcomes == {"sent", "refused", "raised"}

\* What main knows of a call of send_msg: that it returned, or that it
\* raised.
seen_by_main(outcome) == IF outcome = "raised" THEN "raised" ELSE "returned"

\* lines 153 and 164: utils.send_msg(bot_token, chat_id, msg)
Notify ==
    /\ pc = "notify"
    /\ \E outcome \in send_msg_outcomes :
          /\ msg' = [msg EXCEPT !.outcome = seen_by_main(outcome)]
          /\ IF outcome = "raised"
             THEN /\ pc' = "exited"
                  /\ exit_code' = CRASH_EXIT
                  /\ UNCHANGED <<todo, did>>
             ELSE /\ did' = did \cup {"notify"}
                  /\ exit_code' = exit_code
                  /\ IF msg.kind = "funds"
                     THEN pc' = "pause" /\ todo' = todo
                     ELSE pc' = "eval" /\ todo' = Tail(todo)
    /\ UNCHANGED <<launch, cleared, tries, delay, now, orders,
                   persisted, tickers, ev, netErrors, lastBackoff, cycle,
                   bought>>

\* line 155: continue, the loop goes on with the next symbol.
after_pause(todo_) == Tail(todo_)

\* lines 154-155: time.sleep(retry_after * 60); continue
Pause ==
    /\ pc = "pause"
    /\ now + retry_after * SECONDS_PER_MINUTE <= Horizon
    /\ now' = now + retry_after * SECONDS_PER_MINUTE
    /\ todo' = after_pause(todo)
    /\ pc' = "eval"
    /\ UNCHANGED <<launch, cleared, tries, delay, orders,
                   persisted, tickers, ev, msg, did, netErrors, lastBackoff,
                   exit_code, cycle, bought>>

\* lines 168-169: the for loop is over, time.sleep(freq * 60).  The snapshot
\* and the loop variables are dead from here on: line 130 assigns them anew.
Sleep ==
    /\ pc = "eval"
    /\ todo = <<>>
    /\ now + freq * SECONDS_PER_MINUTE <= Horizon
    /\ now' = now + freq * SECONDS_PER_MINUTE
    /\ tickers' = [s \in SymbolSet |-> NoTicker]
    /\ ev' = NoEv
    /\ msg' = NoMsg
    /\ pc' = "fetch"
    /\ UNCHANGED <<launch, cleared, tries, delay, orders,
                   persisted, todo, did, netErrors, lastBackoff, exit_code,
                   cycle, bought>>

\* The operator stops the process between two cycles.
Interrupt ==
    /\ pc = "fetch"
    /\ pc' = "exited"
    /\ exit_code' = CRASH_EXIT
    /\ UNCHANGED <<launch, cleared, tries, delay, now, orders,
                   persisted, tickers, todo, ev, msg, did, netErrors,
                   lastBackoff, cycle, bought>>

\* The operator launches the program again, with or without --reset-cache:
\* a new process, whose only inheritance is what db holds.
Restart ==
    /\ pc = "exited"
    /\ run < MaxRuns
    /\ run' = run + 1
    /\ reset_cache' \in BOOLEAN
    /\ dry_run' \in BOOLEAN
    /\ unsupported' \in {{}, {"ETH/USDT"}}
    /\ pc' = "startup"
    /\ tries' = RETRY_TRIES
    /\ delay' = RETRY_DELAY
    /\ now' = now + RestartGap
    /\ orders' = Empty
    /\ tickers' = [s \in SymbolSet |-> NoTicker]
    /\ todo' = <<>>
    /\ ev' = NoEv
    /\ msg' = NoMsg
    /\ did' = {}
    /\ netErrors' = 0
    /\ lastBackoff' = 0
    /\ exit_code' = 0
    /\ seen' = <<>>
    /\ placed' = <<>>
    /\ bought' = Empty
    /\ UNCHANGED <<persisted, cleared>>

Next ==
    \/ Startup
    \/ StartupNetworkError
    \/ FetchTickers
    \/ FetchNetworkError
    \/ Evaluate
    \/ EvaluateNetworkError
    \/ Notify
    \/ Pause
    \/ Sleep
    \/ Interrupt

\* One process, from its launch to its end.
Spec == Init /\ [][Next]_vars

NextRuns ==
    \/ Startup
    \/ FetchTickers
    \/ Evaluate
    \/ Notify
    \/ Pause
    \/ Sleep
    \/ Interrupt
    \/ Restart

\* Processes launched one after the other on a network that does not fail.
SpecRuns == Init /\ [][NextRuns]_vars

TypeOK ==
    /\ run \in 1..MaxRuns
    /\ pc \in {"startup", "fetch", "eval", "notify", "pause", "exited"}
    /\ tries \in 0..RETRY_TRIES
    /\ DOMAIN orders \subseteq SymbolSet
    /\ DOMAIN persisted \subseteq SymbolSet

----------------------------------------------------------------------------
(* Properties of the decision *)

\* Whole days between the buy of `order` and the instant t, reading an
\* integer timestamp as milliseconds and any other as seconds.
DaysAgo(order, t) ==
    IF order.timestamp.kind = "int"
    THEN (t * 1000 - order.timestamp.whole) \div 86400000
    ELSE ((t - order.timestamp.whole) * 1000 - order.timestamp.frac)
            \div 86400000

Evaluated == ev.symbol # ""
Attempted == ev.result \in {"ok", "funds", "neterr"}

\* C1: a symbol of the snapshot without a record in the Order Store is
\* bought (place_order is called) in the iteration that evaluates it iff the
\* 24h percentage is strictly below -min_drop; the missing record is no
\* error: when nothing is bought the loop goes on to the next symbol.
C1_FirstBuy ==
    (Evaluated /\ ~ev.had) =>
        /\ Attempted <=> ev.ticker.percentage < 0 - min_drop
        /\ ev.buy_again = FALSE
        /\ ~Attempted => (pc = "eval" /\ exit_code = 0)

\* A symbol without a record whose 24h change is exactly -min_drop is not
\* bought.
C1_Witness ==
    /\ Evaluated /\ ~ev.had
    /\ ev.ticker.percentage = 0 - min_drop
    /\ ~Attempted

\* C2: a symbol whose record was bought at most one whole day ago
\* ((now - bought_on).days <= 1) is bought iff
\* (last / last_buy_price - 1) * 100 < -min_additional_drop, whatever the
\* 24h percentage is.
C2_BuyAgain ==
    (Evaluated /\ ev.had /\ DaysAgo(ev.prev, ev.at) <= 1) =>
        /\ Attempted <=>
              (ev.ticker.last - ev.prev.price) * 100
                  < (0 - min_additional_drop) * ev.prev.price
        /\ ev.buy_first_time = FALSE

\* A recent buy, a 24h change below -min_drop, a price that is not
\* min_additional_drop percent under the last buy price: no buy.
C2_Witness ==
    /\ Evaluated /\ ev.had /\ DaysAgo(ev.prev, ev.at) <= 1
    /\ ev.ticker.percentage < 0 - min_drop
    /\ ~Attempted

\* C3: a symbol whose record was bought more than one whole day ago
\* ((now - bought_on).days > 1) is bought iff the 24h percentage is strictly
\* below -min_drop, as a symbol without a record is; the old buy price plays
\* no part.
C3_StaleRecord ==
    (Evaluated /\ ev.had /\ DaysAgo(ev.prev, ev.at) > 1) =>
        /\ Attempted <=> ev.ticker.percentage < 0 - min_drop
        /\ ev.buy_again = FALSE

\* A buy of two days ago (its timestamp in seconds), a price more than
\* min_additional_drop percent under that buy's, a 24h change that is not
\* below -min_drop: no buy.
C3_Witness ==
    /\ Evaluated /\ ev.had /\ DaysAgo(ev.prev, ev.at) > 1
    /\ ev.prev.timestamp.kind = "float"
    /\ (ev.ticker.last - ev.prev.price) * 100
           < (0 - min_additional_drop) * ev.prev.price
    /\ ~Attempted

\* C10: the freshness check reads an integer timestamp as milliseconds (it
\* divides it by 1000 before comparing with now) and a timestamp with a
\* fractional part as seconds; the record of the store is left as it was.
C10_TimestampUnit ==
    (Evaluated /\ ev.had) =>
        /\ ev.prev.timestamp.kind = "int" =>
              (ev.fresh <=>
                  (ev.at * 1000 - ev.prev.timestamp.whole) \div 86400000 <= 1)
        /\ (ev.prev.timestamp.kind = "float" /\ ev.prev.timestamp.frac # 0) =>
              (ev.fresh <=>
                  ((ev.at - ev.prev.timestamp.whole) * 1000
                      - ev.prev.timestamp.frac) \div 86400000 <= 1)
        /\ ev.result # "ok" =>
              (ev.symbol \in DOMAIN orders /\ orders[ev.symbol] = ev.prev)

\* An integer timestamp of an hour ago in seconds: read as milliseconds it
\* is weeks old, and the record is not fresh.
C10_Witness ==
    /\ Evaluated /\ ev.had
    /\ ev.prev.timestamp.kind = "int"
    /\ ev.at - ev.prev.timestamp.whole < 86400
    /\ ~ev.fresh
    /\ orders[ev.symbol] = ev.prev

----------------------------------------------------------------------------
(* Properties of the retry wrapper and of the startup *)

\* C6: network errors are retried a bounded number of times with
\* exponential backoff: main is called at most 8 times, the wrapper sleeps
\* 15 seconds after the first error and twice the previous sleep after each
\* later one, and the 8th error ends the process.
C6_BoundedRetry ==
    /\ netErrors <= 8
    /\ netErrors = 8 => (pc = "exited" /\ exit_code # 0)
    /\ (pc # "exited") => netErrors + 1 <= 8
    /\ netErrors \in 1..7 => lastBackoff = 15 * 2 ^ (netErrors - 1)
    /\ netErrors = 8 => lastBackoff = 15 * 2 ^ 6

\* The ticker fetch has been reached and the 8th error has ended the
\* process, after a last sleep of 960 seconds.
C6_Witness ==
    /\ netErrors = 8
    /\ pc = "exited"
    /\ "fetch" \in did
    /\ lastBackoff = 960

\* C8: with an unsupported symbol among those requested the process fetches
\* no tickers, places no order, neither loads nor writes the Order Store and
\* sends no notification; once the symbol check has answered the process
\* has ended with a non-zero exit code and main is not called again.
C8_FailFast ==
    unsupported # {} =>
        /\ did \cap {"fetch", "order", "load", "save", "notify"} = {}
        /\ orders = Empty
        /\ "check" \in did => (pc = "exited" /\ exit_code # 0)

\* A network error during the symbol check was retried, then the check
\* answered and the process ended without another retry.
C8_Witness ==
    /\ unsupported # {}
    /\ "check" \in did
    /\ netErrors > 0
    /\ tries > 0
    /\ pc = "exited"
    /\ exit_code = UNSUPPORTED_EXIT

----------------------------------------------------------------------------
(* Properties of a cycle *)

\* The first n symbols of the snapshot, in the order of the loop.
FirstSymbols(n) == SubSeq(symbols, 1, n)

NoRepeat(seq) ==
    \A i, j \in DOMAIN seq : seq[i] = seq[j] => i = j

\* C11: in every cycle and for every symbol buy_first_time and buy_again are
\* never both true; the symbols of the snapshot are evaluated one after the
\* other, none twice, and all of them by the time the cycle sleeps; at most
\* one order is attempted per symbol; and an evaluation in which neither
\* condition holds calls nothing and leaves the orders in memory and on disk
\* as they were.
C11_OneTrigger ==
    /\ [](/\ Evaluated => ~(ev.buy_first_time /\ ev.buy_again)
          /\ seen = FirstSymbols(Len(seen))
          /\ NoRepeat(seen) /\ NoRepeat(placed)
          /\ {placed[i] : i \in DOMAIN placed}
                \subseteq {seen[i] : i \in DOMAIN seen}
          /\ (pc = "eval" /\ todo = <<>>) => seen = symbols
          /\ (Evaluated /\ ~ev.buy_first_time /\ ~ev.buy_again) =>
                (ev.result = "none" /\ ev.symbol \notin
                    {placed[i] : i \in DOMAIN placed})
          /\ (Evaluated /\ (ev.buy_first_time \/ ev.buy_again)) =>
                Attempted)
    /\ [][(pc = "eval" /\ ev'.result = "none" /\ ev'.symbol # "") =>
            /\ orders' = orders /\ persisted' = persisted
            /\ did' = did /\ placed' = placed]_vars

\* A fresh record and a snapshot in which both the 24h change and the
\* discount to the last buy price are below their thresholds: the
\* additional-drop rule alone fires, and one order is attempted.
C11_Witness ==
    /\ Evaluated /\ ev.had /\ ev.fresh
    /\ ev.ticker.percentage < 0 - min_drop
    /\ (ev.ticker.last - ev.prev.price) * 100
           < (0 - min_additional_drop) * ev.prev.price
    /\ ev.buy_again /\ ~ev.buy_first_time
    /\ placed = <<ev.symbol>>
    /\ pc = "notify"

\* C13: a successful buy first puts the new record in the orders in memory,
\* then persists the whole mapping, and only then calls the notifier; the
\* message quotes the discount to the previous buy price when the
\* additional-drop rule fired and the 24h percentage when the first-time
\* rule fired.
C13_BuyThenNotify ==
    /\ []((pc = "notify" /\ msg.kind # "funds") =>
            /\ ev.result = "ok"
            /\ msg.outcome = "calling"
            /\ ev.symbol \in DOMAIN orders
            /\ orders[ev.symbol] \in
                  {Order(ev.symbol, ev.ticker.last, ts) :
                      ts \in {IntTs(ev.at * 1000), FloatTs(ev.at, 500)}}
            /\ persisted = orders
            /\ "save" \in did
            /\ ev.buy_again =>
                  /\ msg.basis = "previous buy"
                  /\ LET exact == 1000 * (ev.ticker.last - ev.prev.price)
                         quoted == msg.pct * ev.prev.price
                     IN  /\ 2 * (exact - quoted) <= ev.prev.price
                         /\ 2 * (quoted - exact) <= ev.prev.price
            /\ ev.buy_first_time =>
                  /\ msg.basis = "24h ago"
                  /\ msg.pct = 10 * ev.ticker.percentage)
    /\ [][(pc = "eval" /\ ev'.result = "ok") =>
            (pc' = "notify" /\ msg'.kind \in {"first", "again"}
                /\ msg'.outcome = "calling" /\ persisted' = orders'
                /\ did' \ did \subseteq {"order", "submit", "save"})]_vars

\* The additional-drop rule has fired on a snapshot whose 24h change is
\* below -min_drop too: the record at the new price is in memory and on
\* disk, and the message about to be sent quotes the discount to the
\* previous buy price, which is not the 24h change.
C13_Witness ==
    /\ pc = "notify" /\ msg.kind = "again" /\ msg.outcome = "calling"
    /\ ev.ticker.percentage < 0 - min_drop
    /\ msg.basis = "previous buy"
    /\ msg.pct # 10 * ev.ticker.percentage
    /\ persisted[ev.symbol].price = ev.ticker.last
    /\ ev.prev.price # ev.ticker.last

\* C16: the retry budget is that of the process: the attempts left and the
\* next backoff depend only on the number of network errors raised so far,
\* wherever in main they were raised and however many cycles succeeded in
\* between, and the process has ended exactly when the 8th has been raised.
C16_CumulativeBudget ==
    /\ tries = 8 - netErrors
    /\ delay = 15 * 2 ^ (IF netErrors = 8 THEN 7 ELSE netErrors)
    /\ netErrors = 8 <=> (pc = "exited" /\ tries = 0)
    /\ tries = 0 => exit_code # 0

\* One network error, then a cycle without a buy and its sleep, then a buy
\* in the next cycle, then seven more network errors, the last of them in
\* place_order: the process has ended.
C16_Witness ==
    /\ netErrors = 8 /\ pc = "exited"
    /\ "BTC/USDT" \in DOMAIN bought
    /\ bought["BTC/USDT"].timestamp =
          FloatTs(StartTime + 15 + freq * 60, 500)
    /\ ev.result = "neterr"

\* C17: the dry-run flag changes nothing but the submission of the order.
\* What an iteration decides, what it records and persists and what it tells
\* the operator are the same functions of the snapshot, of the orders in
\* memory, of the clock and of the outcome of place_order in a dry-run
\* process and in a live one (none of them reads the flag, so two processes
\* fed the same snapshots and outcomes stay equal step by step); a dry-run
\* process submits nothing, and the order it computed is recorded and
\* persisted like a real one.
C17_DryRunOnlySubmission ==
    /\ [](dry_run => "submit" \notin did)
    /\ []((~dry_run /\ Evaluated /\ Attempted) => "submit" \in did)
    /\ [][(pc = "eval" /\ todo # <<>> /\ seen' # seen) =>
            LET s == Head(todo)
                t == tickers[s]
                fresh == s \in DOMAIN orders /\ DaysAgo(orders[s], now) <= 1
                again == fresh /\ (t.last - orders[s].price) * 100
                                    < (0 - min_additional_drop) * orders[s].price
                first == ~fresh /\ t.percentage < 0 - min_drop
            IN  /\ ev'.symbol = s
                /\ ev'.result = "none" <=> ~(first \/ again)
                /\ ev'.result = "ok" =>
                      /\ orders' \in
                            {(s :> Order(s, t.last, ts)) @@ orders :
                                ts \in {IntTs(now * 1000), FloatTs(now, 500)}}
                      /\ persisted' = orders'
                      /\ msg'.kind = IF again THEN "again" ELSE "first"
                      /\ pc' = "notify"
                /\ ev'.result # "ok" =>
                      (orders' = orders /\ persisted' = persisted)
                /\ ev'.result = "funds" =>
                      (msg'.kind = "funds" /\ pc' = "notify")]_vars

\* A dry-run process has computed a buy of BTC/USDT without submitting it;
\* in the next cycle the 24h change is still below -min_drop, and the
\* recorded price of the simulated buy keeps the symbol from being bought
\* again.
C17_Witness ==
    /\ dry_run /\ "submit" \notin did /\ "save" \in did
    /\ Evaluated /\ ev.had /\ ev.fresh
    /\ ev.symbol \in DOMAIN bought /\ ev.prev = bought[ev.symbol]
    /\ persisted[ev.symbol] = ev.prev
    /\ ev.at > ev.prev.timestamp.whole
    /\ ev.ticker.percentage < 0 - min_drop
    /\ ev.result = "none"

----------------------------------------------------------------------------
(* Statements the program does not satisfy *)

\* C4: when place_order raises InsufficientFunds the operator is notified,
\* the loop then pauses for retry_after minutes, and neither the orders in
\* memory nor the orders on disk change.
C4_InsufficientFunds ==
    /\ [][(pc = "notify" /\ msg.kind = "funds") =>
            (pc' = "pause" /\ orders' = orders /\ persisted' = persisted)]_vars
    /\ [][pc = "pause" =>
            /\ now' = now + retry_after * 60
            /\ pc' = "eval"
            /\ orders' = orders /\ persisted' = persisted]_vars
    /\ [][(pc = "eval" /\ ev'.result = "funds") =>
            (pc' = "notify" /\ msg'.kind = "funds"
                /\ orders' = orders /\ persisted' = persisted)]_vars

\* C5: after the first load the record of a symbol changes only in the step
\* in which place_order for that symbol returned an order, and right after
\* such a step what is on disk equals what is in memory.
C5_RecordsChangeOnBuy ==
    /\ [][\A s \in SymbolSet :
            ("check" \in did /\
             (IF s \in DOMAIN orders' THEN {orders'[s]} ELSE {})
                 # (IF s \in DOMAIN orders THEN {orders[s]} ELSE {}))
            => (pc = "eval" /\ ev'.symbol = s /\ ev'.result = "ok")]_vars
    /\ [][(pc = "eval" /\ ev'.result = "ok") => persisted' = orders']_vars
    /\ [][persisted' # persisted => (pc = "eval" /\ ev'.result = "ok")]_vars

\* C7: a call of the notifier never ends the process: after it the loop
\* stands where it stands after a delivered message, whatever happened to
\* the message.
C7_NotifierBestEffort ==
    [][pc = "notify" =>
        /\ pc' = (IF msg.kind = "funds" THEN "pause" ELSE "eval")
        /\ exit_code' = 0]_vars

\* C9: a process launched without --reset-cache starts with the orders on
\* disk, a process launched with it starts with none, and no process
\* launched without it holds an order that was on disk when an earlier
\* process started its loop with it.
C9_ResetClears ==
    (pc \in {"fetch", "eval", "notify", "pause"}) =>
        /\ ~reset_cache => orders = persisted
        /\ (reset_cache /\ did \cap {"order"} = {}) => orders = Empty
        /\ ~reset_cache => Held(orders) \cap cleared = {}

\* C12: when place_order raises InsufficientFunds the operator is notified
\* first, the whole loop then pauses for retry_after minutes, and the loop
\* then goes on with the next symbol of the same snapshot: nothing is
\* evaluated or bought during the pause, the symbol that failed is not tried
\* again in this cycle, and the rest of the snapshot is evaluated before
\* the cycle sleeps.
C12_FundsPause ==
    /\ [][(pc = "eval" /\ ev'.result = "funds") =>
            (pc' = "notify" /\ msg'.kind = "funds" /\ now' = now)]_vars
    /\ [][(pc = "notify" /\ msg.kind = "funds") =>
            (pc' = "pause" /\ now' = now /\ cycle' = cycle
                /\ todo' = todo /\ tickers' = tickers)]_vars
    /\ [][pc = "pause" =>
            /\ now' = now + retry_after * SECONDS_PER_MINUTE
            /\ pc' = "eval"
            /\ cycle' = cycle /\ orders' = orders /\ tickers' = tickers
            /\ Head(todo) = ev.symbol
            /\ todo' = Tail(todo)]_vars
    /\ []((pc = "eval" /\ todo = <<>>) => seen = symbols)

\* C14: once this process has bought a symbol at price p, it buys that
\* symbol again, while that buy is at most one whole day old, only in a cycle
\* whose last price is below p * (1 - min_additional_drop / 100), whatever
\* pauses and retries lie between the two buys and whatever the reset and
\* dry-run flags are.
C14_NoRepeatedBuy ==
    [][\A s \in SymbolSet :
          (/\ pc = "eval" /\ ev'.result = "ok" /\ ev'.symbol = s
           /\ s \in DOMAIN bought
           /\ DaysAgo(bought[s], now) <= 1)
          => (tickers[s].last - bought[s].price) * 100
                 < (0 - min_additional_drop) * bought[s].price]_vars

\* C15: when the retry wrapper calls main again after a RequestTimeout or
\* NetworkError, the loop resumes with the orders that were in memory when
\* the error was raised, for every symbol, with or without --reset-cache.
\* (An error raised before the first load, in the symbol check, finds no
\* orders in memory yet and is not concerned.)
C15_RetryKeepsOrders ==
    [][(pc = "startup" /\ netErrors > 0 /\ "check" \in did
            /\ pc' = "fetch") =>
          \A s \in SymbolSet :
             /\ s \in DOMAIN orders' <=> s \in DOMAIN orders
             /\ s \in DOMAIN orders => orders'[s] = orders[s]]_vars

====
